---- MODULE Spec2Model ----
(***************************************************************************)
(* Model of the GitHub webhook service of src/main.py: the POST /webhook   *)
(* handler (github_webhook), its two event handlers, the analysis invoker  *)
(* and the comment publisher, together with the external state they act on *)
(* (the clone cache under ~/workdir and the issue threads of the tracker). *)
(*                                                                         *)
(* Scheduling.  The service is started by uvicorn.run(app) (one process,   *)
(* one asyncio event loop).  github_webhook and both handlers are          *)
(* `async def` and every external call in them is a blocking               *)
(* subprocess.run, so a request gives up the event loop at exactly one     *)
(* place, `await request.body()`; from there to its response it runs       *)
(* without any other request being scheduled.  The variable `loop` holds   *)
(* the request that occupies the event loop.  The external world (people   *)
(* commenting on issues, GitHub delivering webhooks) is not bound by it.   *)
(***************************************************************************)
EXTENDS Integers, Sequences, FiniteSets, TLC

\* ------------------------------------------------------------------ bounds
\* Number of webhook deliveries the environment makes in one behaviour.
MaxDeliveries == 2
\* Number of comments people add to issue threads in one behaviour.
MaxHumanComments == 1

\* ------------------------------------------------------------- input sets
\* Connections the server handles at the same time.
Reqs == {"c1", "c2"}
\* Repository full names, "owner/name", as the list full_name.split("/").
Repos == {<<"o1", "r">>, <<"o2", "r">>}
\* The issue every delivery of the model is about.
IssueNumber == 1
NoRepo == <<>>
Free == "free"

\* ------------------------------------------------------------------- text
\* A text is a sequence of tokens; "sp" and "nl" are whitespace.
Whitespace == {"sp", "nl"}
claude_reply_signature == <<"nl", "nl", "---", "nl", "footer">>
FallbackError == <<"robot", "unavailable">>
FallbackTimeout == <<"robot", "too long">>
FallbackUnexpected == <<"robot", "unexpected">>
\* What the analysis backend may print.
Stdouts == {<<>>, <<"sp", "x", "nl">>}
\* What a person may write: a plain comment, or one quoting the bot's footer.
HumanBodies == {<<"x">>, <<"x">> \o claude_reply_signature}

\* One comment of an issue, as `gh issue view --json comments` lists it.
Comment(author, body) == [author |-> author, body |-> body]

\* The comments of an issue after one more is posted.  Of a thread the
\* service reads whether it is empty and its last element (comments[-1]); the
\* model keeps the thread from its last comment on.
add_comment(comments, comment) == <<comment>>

RECURSIVE lstrip(_)
lstrip(s) ==
  IF s = <<>> THEN s
  ELSE IF Head(s) \in Whitespace THEN lstrip(Tail(s)) ELSE s

RECURSIVE rstrip(_)
rstrip(s) ==
  IF s = <<>> THEN s
  ELSE IF s[Len(s)] \in Whitespace THEN rstrip(SubSeq(s, 1, Len(s) - 1)) ELSE s

strip(s) == rstrip(lstrip(s))

endswith(s, suffix) ==
  /\ Len(s) >= Len(suffix)
  /\ SubSeq(s, Len(s) - Len(suffix) + 1, Len(s)) = suffix

\* -------------------------------------------------------------- signature
\* HMAC-SHA256 as a collision-free digest of (key, message).
hmac_hexdigest(key, msg) == <<key, msg>>
\* f"sha256={expected_signature}"
sha256_header(digest) == <<"sha256=", digest>>
\* A comparison that stops at the "sha256=" prefix.
compare_digest_prefix(a, b) == a[1] = b[1]
compare_digest(a, b) == a = b

\* ----------------------------------------------------------------- bodies
\* A request body that is not JSON, and the body a forged signature was made for.
NotJson == [valid |-> FALSE]
OtherBody == [valid |-> FALSE, other |-> TRUE]

EventBody(action, repo, label, labels) ==
  [valid |-> TRUE, action |-> action, full_name |-> repo,
   number |-> IssueNumber, label |-> label, labels |-> labels]

\* (X-GitHub-Event, action) pairs other than the two the service handles.
OtherPairs ==
  {<<"issues", "created">>, <<"issue_comment", "labeled">>}

\* The repository most deliveries are about, and one of another owner that
\* has the same short name.
Main == <<"o1", "r">>
Namesake == <<"o2", "r">>

\* The delivery the service exists for: the trigger label put on an issue.
Labeled == EventBody("labeled", Main, "claude-discuss", {"claude-discuss"})

\* <<X-GitHub-Event header, body>> pairs GitHub delivers ("" = no header,
\* label "" = the payload has no "label" object): every kind of event for
\* Main, the two handled kinds for Namesake, a body that is not JSON and a
\* delivery without the event header.
Events ==
  {<<"issues", EventBody("labeled", Main, l, {l})>> : l \in {"claude-discuss", "bug"}}
  \cup {<<"issue_comment", EventBody("created", Main, "", ls)>> :
          ls \in {{"bug"}, {"bug", "claude-discuss"}}}
  \cup {<<p[1], EventBody(p[2], Main, "", {"claude-discuss"})>> : p \in OtherPairs}
  \cup {<<"issues", EventBody("labeled", Namesake, "claude-discuss", {"claude-discuss"})>>,
        <<"issue_comment", EventBody("created", Namesake, "", {"claude-discuss"})>>}
  \cup {<<"issues", NotJson>>, <<"", Labeled>>}

\* Requests a sender may make: every event signed with the service's key, and
\* the trigger delivery unsigned, signed with another key, or carrying the
\* signature of another body.
Deliverable ==
  {[signature |-> sha256_header(hmac_hexdigest("k1", e[2])), event |-> e[1],
    body |-> e[2]] : e \in Events}
  \cup {[signature |-> sig, event |-> "issues", body |-> Labeled] :
          sig \in {<<>>, sha256_header(hmac_hexdigest("k2", Labeled)),
                   sha256_header(hmac_hexdigest("k1", OtherBody))}}

\* ------------------------------------------------------------------ state
VARIABLES
  secret,           \* os.getenv("GITHUB_WEBHOOK_SECRET"), "" when unset
  CLAUDE_TIMEOUT,   \* os.getenv("CLAUDE_TIMEOUT"), "" when unset
  workdir,          \* ~/workdir exists
  cache,            \* short name -> repository cloned at ~/workdir/<short name>
  tracker,          \* repository -> comments of its issue (see add_comment)
  issue_labels,     \* repository -> labels its issue carries now
  loop,             \* the request running on the event loop, or Free
  delivered,        \* deliveries made so far
  humans,           \* comments and label removals people made so far
  request,          \* per connection: the request being handled
  pc,               \* per connection: where its handler stands
  log,              \* per connection: external calls made, <<call, outcome>>
  issue_info,       \* per connection: comments of the fetched issue
  claude_thoughts,  \* per connection: text handed to post_comment
  response,         \* per connection: the HTTP response sent
  rival             \* per connection: it arrived for a repository without a
                    \* clone while the other connection's request for the
                    \* same repository was waiting (an observation, not read
                    \* by the service)

vars == <<secret, CLAUDE_TIMEOUT, workdir, cache, tracker, issue_labels, loop, delivered,
          humans, request, pc, log, issue_info, claude_thoughts, response, rival>>

config == <<secret, CLAUDE_TIMEOUT>>
ShortNames == {repo[Len(repo)] : repo \in Repos}
NoRequest == [signature |-> <<>>, event |-> "", body |-> NotJson]
NoResponse == [status_code |-> 0, message |-> <<>>]

Init ==
  /\ secret \in {"", "k1"}
  /\ CLAUDE_TIMEOUT \in {"", "30"}
  /\ workdir = FALSE
  /\ cache = [n \in ShortNames |-> NoRepo]
  /\ tracker = [repo \in Repos |-> <<>>]
  /\ issue_labels = [repo \in Repos |-> {"claude-discuss"}]
  /\ loop = Free
  /\ delivered = 0
  /\ humans = 0
  /\ request = [r \in Reqs |-> NoRequest]
  /\ pc = [r \in Reqs |-> "idle"]
  /\ log = [r \in Reqs |-> <<>>]
  /\ issue_info = [r \in Reqs |-> <<>>]
  /\ claude_thoughts = [r \in Reqs |-> <<>>]
  /\ response = [r \in Reqs |-> NoResponse]
  /\ rival = [r \in Reqs |-> FALSE]

\* ---------------------------------------------------------------- helpers
payload(r) == request[r].body
repo_full_name(r) == payload(r).full_name
\* workdir / repo_full_name.split("/")[-1]
repo_path(r) == repo_full_name(r)[Len(repo_full_name(r))]
event_type(r) == <<request[r].event, payload(r).action>>

\* The handler ends and its response is sent: its locals are gone and the
\* event loop is free again.
Respond(r, status_code, message) ==
  /\ response' = [response EXCEPT ![r] =
       [status_code |-> status_code, message |-> message]]
  /\ pc' = [pc EXCEPT ![r] = "done"]
  /\ issue_info' = [issue_info EXCEPT ![r] = <<>>]
  /\ claude_thoughts' = [claude_thoughts EXCEPT ![r] = <<>>]
  /\ loop' = Free

\* The handler returns JSONResponse({"message": message}, status_code=200).
JSONResponse(r, message) == Respond(r, 200, message)

\* Status of the response when anything is raised inside github_webhook's
\* try block: `except Exception` also catches the HTTPException instances the
\* block raises itself (HTTPException is an Exception) and raises a new
\* HTTPException(status_code=500) in their place.
webhook_except(status_code) == 500

\* github_webhook without its `except Exception`: an exception that is not an
\* HTTPException leaves the handler and the request gets no response.
Raise_uncaught(r, status_code) ==
  IF status_code # 0 THEN Respond(r, status_code, <<>>)
  ELSE /\ pc' = [pc EXCEPT ![r] = "crashed"]
       /\ issue_info' = [issue_info EXCEPT ![r] = <<>>]
       /\ claude_thoughts' = [claude_thoughts EXCEPT ![r] = <<>>]
       /\ loop' = Free
       /\ UNCHANGED response

\* Something is raised inside the try block: status_code is the status of the
\* HTTPException raised (0 for any other exception); the response carries
\* what the except clause makes of it.
Raise(r, status_code) == Respond(r, webhook_except(status_code), <<>>)

\* Outcomes of an external command run with check=True, as the caller sees
\* them: it returns, or raises CalledProcessError, or raises something else
\* (the program is missing, its output is not JSON).
Outcomes == {"ok", "CalledProcessError", "Exception"}
\* What the log keeps of an outcome.
Result(outcome) == IF outcome = "ok" THEN "ok" ELSE "error"

Call(r, call, result) == log' = [log EXCEPT ![r] = Append(@, <<call, result>>)]

\* ------------------------------------------------------------ environment
\* Request d arrives while the request of connection o waits for its body:
\* both are authentic deliveries for the same repository, which has no clone.
Race(d, o) ==
  /\ pc[o] \in {"start", "body"}
  /\ secret # ""
  /\ \A q \in {d, request[o]} :
       /\ q.signature = <<"sha256=", <<secret, q.body>>>>
       /\ q.body.valid /\ q.event # ""
  /\ d.body.full_name = request[o].body.full_name
  /\ cache[d.body.full_name[2]] = NoRepo

\* A sender delivers a webhook on a connection that is not in use.
Deliver(r) ==
  /\ pc[r] \in {"idle", "done"}
  /\ delivered < MaxDeliveries
  /\ \E d \in Deliverable :
       /\ request' = [request EXCEPT ![r] = d]
       /\ rival' = [q \in Reqs |->
            IF \E o \in Reqs \ {r} : Race(d, o) THEN (q = r \/ Race(d, q) \/ rival[q])
            ELSE q # r /\ rival[q]]
  /\ delivered' = delivered + 1
  /\ pc' = [pc EXCEPT ![r] = "start"]
  /\ log' = [log EXCEPT ![r] = <<>>]
  /\ issue_info' = [issue_info EXCEPT ![r] = <<>>]
  /\ claude_thoughts' = [claude_thoughts EXCEPT ![r] = <<>>]
  /\ response' = [response EXCEPT ![r] = NoResponse]
  /\ UNCHANGED <<config, issue_labels, workdir, cache, tracker, loop, humans>>

\* A person comments on the issue of a repository.
HumanComment(repo) ==
  /\ humans < MaxHumanComments
  /\ humans' = humans + 1
  /\ \E body \in HumanBodies :
       tracker' = [tracker EXCEPT ![repo] = add_comment(@, Comment("human", body))]
  /\ UNCHANGED <<config, issue_labels, workdir, cache, loop, delivered, request, pc, log,
                 issue_info, claude_thoughts, response, rival>>

\* A person takes the trigger label off the issue of a repository instead of
\* commenting on it.
RemoveLabel(repo) ==
  /\ humans < MaxHumanComments
  /\ humans' = humans + 1
  /\ "claude-discuss" \in issue_labels[repo]
  /\ issue_labels' = [issue_labels EXCEPT ![repo] = @ \ {"claude-discuss"}]
  /\ UNCHANGED <<config, workdir, cache, tracker, loop, delivered,
                 request, pc, log, issue_info, claude_thoughts, response, rival>>

\* ---------------------------------------------------------- github_webhook
\* The handler goes on to its next step and keeps the response for later.
Goto(r, step) ==
  /\ pc' = [pc EXCEPT ![r] = step]
  /\ UNCHANGED response

\* The handler's blocking calls run off the event loop, which stays free.
event_loop_owner_offloaded(r) == Free

\* Who occupies the event loop once the handler of r has resumed after its
\* await: the handler itself, up to its return, since it awaits nothing else
\* and its subprocess.run calls block the loop's thread.
event_loop_owner(r) == r

\* From the start of the handler to `await request.body()`, where the
\* request leaves the event loop to others.
github_webhook(r) ==
  /\ pc[r] = "start"
  /\ loop = Free
  /\ IF secret = "" THEN Raise(r, 500)
     ELSE IF request[r].signature = <<>> THEN Raise(r, 400)
     ELSE Goto(r, "body") /\ UNCHANGED <<loop, issue_info, claude_thoughts>>
  /\ UNCHANGED <<config, issue_labels, workdir, cache, tracker, delivered, humans, request, log, rival>>

\* github_webhook without the test of repo_path.exists(): every verified
\* request clones.
verify_and_parse_always_clone(r) ==
  /\ pc[r] = "body"
  /\ loop = Free
  /\ LET expected_signature == hmac_hexdigest(secret, payload(r)) IN
     IF ~compare_digest(sha256_header(expected_signature), request[r].signature)
       THEN Raise(r, 401) /\ UNCHANGED workdir
     ELSE IF ~payload(r).valid \/ request[r].event = ""
       THEN Raise(r, 0) /\ UNCHANGED workdir
     ELSE /\ workdir' = TRUE
          /\ Goto(r, "clone")
          /\ loop' = event_loop_owner(r)
          /\ UNCHANGED <<issue_info, claude_thoughts>>
  /\ UNCHANGED <<config, issue_labels, cache, tracker, delivered, humans,
                 request, log, rival>>

\* From the body's arrival to the test of repo_path.exists().
verify_and_parse(r) ==
  /\ pc[r] = "body"
  /\ loop = Free
  /\ LET expected_signature == hmac_hexdigest(secret, payload(r)) IN
     IF ~compare_digest(sha256_header(expected_signature), request[r].signature)
       THEN Raise(r, 401) /\ UNCHANGED workdir
     ELSE IF ~payload(r).valid \/ request[r].event = ""
       THEN Raise(r, 0) /\ UNCHANGED workdir
     ELSE /\ workdir' = TRUE
          /\ Goto(r, IF cache[repo_path(r)] = NoRepo THEN "clone" ELSE "dispatch")
          /\ loop' = event_loop_owner(r)
          /\ UNCHANGED <<issue_info, claude_thoughts>>
  /\ UNCHANGED <<config, issue_labels, cache, tracker, delivered, humans, request, log, rival>>

\* git clone run without check=True: a failed clone goes unnoticed and the
\* handler goes on to classify the event.
git_clone_unchecked(r) ==
  /\ pc[r] = "clone"
  /\ \E outcome \in {"ok", "CalledProcessError"} :
       /\ Call(r, "clone", Result(outcome))
       /\ cache' = IF outcome = "ok"
                     THEN [cache EXCEPT ![repo_path(r)] = repo_full_name(r)]
                     ELSE cache
  /\ Goto(r, "dispatch")
  /\ UNCHANGED <<config, issue_labels, workdir, tracker, loop, delivered, humans, request,
                 issue_info, claude_thoughts, rival>>

\* git clone ssh_url --depth 1, in ~/workdir.
git_clone(r) ==
  /\ pc[r] = "clone"
  /\ \E outcome \in {"ok", "CalledProcessError"} :
       /\ Call(r, "clone", Result(outcome))
       /\ IF outcome = "ok"
            THEN /\ cache' = [cache EXCEPT ![repo_path(r)] = repo_full_name(r)]
                 /\ Goto(r, "dispatch")
                 /\ UNCHANGED <<loop, issue_info, claude_thoughts>>
            ELSE Raise(r, 500) /\ UNCHANGED cache
  /\ UNCHANGED <<config, issue_labels, workdir, tracker, delivered, humans, request, rival>>

\* The comment handler without its label test: every issue_comment/created
\* event goes on to the fetch.
dispatch_any_comment(r) ==
  /\ pc[r] = "dispatch"
  /\ IF event_type(r) = <<"issues", "labeled">>
       THEN IF payload(r).label # "claude-discuss"
              THEN JSONResponse(r, <<"Label ignored: ", payload(r).label>>)
              ELSE Goto(r, "labeled_view")
                   /\ UNCHANGED <<loop, issue_info, claude_thoughts>>
     ELSE IF event_type(r) = <<"issue_comment", "created">>
       THEN Goto(r, "comment_view")
            /\ UNCHANGED <<loop, issue_info, claude_thoughts>>
     ELSE JSONResponse(r, <<"Event ignored">>)
  /\ UNCHANGED <<config, issue_labels, workdir, cache, tracker, delivered,
                 humans, request, log, rival>>

\* The if/elif/else on event_type and the label test each handler starts with.
dispatch(r) ==
  /\ pc[r] = "dispatch"
  /\ IF event_type(r) = <<"issues", "labeled">>
       THEN IF payload(r).label # "claude-discuss"
              THEN JSONResponse(r, <<"Label ignored: ", payload(r).label>>)
              ELSE Goto(r, "labeled_view")
                   /\ UNCHANGED <<loop, issue_info, claude_thoughts>>
     ELSE IF event_type(r) = <<"issue_comment", "created">>
       THEN IF ~(\E label \in payload(r).labels : label = "claude-discuss")
              THEN JSONResponse(r, <<"Issue not marked for claude-discuss">>)
              ELSE Goto(r, "comment_view")
                   /\ UNCHANGED <<loop, issue_info, claude_thoughts>>
     ELSE JSONResponse(r, <<"Event ignored">>)
  /\ UNCHANGED <<config, issue_labels, workdir, cache, tracker, delivered, humans, request, log, rival>>

\* gh issue view <number> --json ..., run in repo_path: gh reads the issue of
\* the repository cloned there.
gh_issue_view(r) == tracker[cache[repo_path(r)]]

\* handle_issues_labeled: fetch the issue, then go on to the analysis.
handle_issues_labeled(r) ==
  /\ pc[r] = "labeled_view"
  /\ \E outcome \in Outcomes :
       /\ Call(r, "view", Result(outcome))
       /\ IF outcome = "ok"
            THEN /\ issue_info' = [issue_info EXCEPT ![r] = gh_issue_view(r)]
                 /\ Goto(r, "analyze")
                 /\ UNCHANGED <<loop, claude_thoughts>>
            ELSE Raise(r, 500)
  /\ UNCHANGED <<config, issue_labels, workdir, cache, tracker, delivered, humans, request, rival>>

\* The last comment is compared with the marker as a whole.
already_replied_exact(comments) ==
  /\ comments # <<>>
  /\ comments[Len(comments)].body = claude_reply_signature

\* comments and comments[-1].get("body", "").endswith(claude_reply_signature)
already_replied(comments) ==
  /\ comments # <<>>
  /\ endswith(comments[Len(comments)].body, claude_reply_signature)

\* handle_issue_comment_created: fetch the issue and stop if it was answered.
handle_issue_comment_created(r) ==
  /\ pc[r] = "comment_view"
  /\ \E outcome \in Outcomes :
       /\ Call(r, "view", Result(outcome))
       /\ IF outcome # "ok" THEN Raise(r, 500)
          ELSE IF already_replied(gh_issue_view(r))
            THEN JSONResponse(r, <<"Claude reply already exists">>)
          ELSE /\ issue_info' = [issue_info EXCEPT ![r] = gh_issue_view(r)]
               /\ Goto(r, "analyze")
               /\ UNCHANGED <<loop, claude_thoughts>>
  /\ UNCHANGED <<config, issue_labels, workdir, cache, tracker, delivered, humans, request, rival>>

\* The last except clause returns its message without the marker.
analysis_result_unsigned(outcome, stdout) ==
  IF outcome = "ok" THEN strip(stdout) \o claude_reply_signature
  ELSE IF outcome = "CalledProcessError" THEN FallbackError \o claude_reply_signature
  ELSE IF outcome = "TimeoutExpired" THEN FallbackTimeout \o claude_reply_signature
  ELSE FallbackUnexpected

\* The text analyze_issue_with_claude returns on each outcome of the backend.
analysis_result(outcome, stdout) ==
  IF outcome = "ok" THEN strip(stdout) \o claude_reply_signature
  ELSE IF outcome = "CalledProcessError" THEN FallbackError \o claude_reply_signature
  ELSE IF outcome = "TimeoutExpired" THEN FallbackTimeout \o claude_reply_signature
  ELSE FallbackUnexpected \o claude_reply_signature

\* Outcomes of the try block: int(os.getenv("CLAUDE_TIMEOUT")) raises a
\* TypeError when the variable is unset, before the backend is run.
analysis_outcomes ==
  IF CLAUDE_TIMEOUT = "" THEN {"Exception"}
  ELSE {"ok", "CalledProcessError", "TimeoutExpired", "Exception"}

\* analyze_issue_with_claude without its last except clause: an unexpected
\* failure leaves it and ends the request.
analyze_issue_with_claude_raising(r) ==
  /\ pc[r] = "analyze"
  /\ \E outcome \in analysis_outcomes : \E stdout \in Stdouts :
       /\ Call(r, "analyze", outcome)
       /\ IF outcome = "Exception" THEN Raise(r, 0)
          ELSE /\ claude_thoughts' = [claude_thoughts EXCEPT ![r] =
                    analysis_result(outcome, stdout)]
               /\ Goto(r, "publish")
               /\ UNCHANGED <<loop, issue_info>>
  /\ UNCHANGED <<config, issue_labels, workdir, cache, tracker, delivered, humans, request, rival>>

analyze_issue_with_claude(r) ==
  /\ pc[r] = "analyze"
  /\ \E outcome \in analysis_outcomes : \E stdout \in Stdouts :
       /\ Call(r, "analyze", outcome)
       /\ claude_thoughts' = [claude_thoughts EXCEPT ![r] =
            analysis_result(outcome, stdout)]
  /\ Goto(r, "publish")
  /\ UNCHANGED <<config, issue_labels, workdir, cache, tracker, loop, delivered, humans,
                 request, issue_info, rival>>

\* Both handlers answer with the comment handler's message.
posted_message_reply(r) == <<"Reply posted successfully">>

\* Message of the 200 response after a successful post_comment.
posted_message(r) ==
  IF request[r].event = "issues" THEN <<"Comment posted successfully">>
  ELSE <<"Reply posted successfully">>

\* post_comment with a retry: after a CalledProcessError the comment is
\* attempted again.
post_comment_retry(r) ==
  /\ pc[r] = "publish"
  /\ \E outcome \in Outcomes :
       /\ Call(r, "comment", Result(outcome))
       /\ IF outcome = "ok"
            THEN /\ tracker' = [tracker EXCEPT ![repo_full_name(r)] =
                      add_comment(@, Comment("bot", claude_thoughts[r]))]
                 /\ JSONResponse(r, posted_message(r))
          ELSE IF outcome = "CalledProcessError"
            THEN /\ Goto(r, "publish")
                 /\ UNCHANGED <<tracker, loop, issue_info, claude_thoughts>>
          ELSE Raise(r, 0) /\ UNCHANGED tracker
  /\ UNCHANGED <<config, issue_labels, workdir, cache, delivered, humans, request, rival>>

\* gh issue comment <number> --repo <repo_full_name> --body <comment>, and the
\* handler's `if success` after it.  post_comment catches CalledProcessError
\* only and returns False; any other exception leaves it.
post_comment(r) ==
  /\ pc[r] = "publish"
  /\ \E outcome \in Outcomes :
       /\ Call(r, "comment", Result(outcome))
       /\ IF outcome = "ok"
            THEN /\ tracker' = [tracker EXCEPT ![repo_full_name(r)] =
                      add_comment(@, Comment("bot", claude_thoughts[r]))]
                 /\ JSONResponse(r, posted_message(r))
            ELSE /\ Raise(r, IF outcome = "CalledProcessError" THEN 500 ELSE 0)
                 /\ UNCHANGED tracker
  /\ UNCHANGED <<config, issue_labels, workdir, cache, delivered, humans, request, rival>>

Next ==
  \/ \E r \in Reqs : Deliver(r)
  \/ \E repo \in Repos : HumanComment(repo)
  \/ \E r \in Reqs : github_webhook(r)
  \/ \E r \in Reqs : verify_and_parse(r)
  \/ \E r \in Reqs : git_clone(r)
  \/ \E r \in Reqs : dispatch(r)
  \/ \E r \in Reqs : handle_issues_labeled(r)
  \/ \E r \in Reqs : handle_issue_comment_created(r)
  \/ \E r \in Reqs : analyze_issue_with_claude(r)
  \/ \E r \in Reqs : post_comment(r)

Spec == Init /\ [][Next]_vars

\* The steps of the handler of request r.
github_webhook_step(r) ==
  \/ github_webhook(r)
  \/ verify_and_parse(r)
  \/ git_clone(r)
  \/ dispatch(r)
  \/ handle_issues_labeled(r)
  \/ handle_issue_comment_created(r)
  \/ analyze_issue_with_claude(r)
  \/ post_comment(r)

\* The service and its senders alone: issue threads change only through the
\* replies of the service.
NextServing ==
  \/ \E r \in Reqs : Deliver(r)
  \/ \E r \in Reqs : github_webhook_step(r)

\* The event loop runs every handler that is ready to run, and every external
\* call returns or raises: a handler that can take a step takes one.
FairSpec ==
  /\ Init /\ [][NextServing]_vars
  /\ \A r \in Reqs : WF_vars(github_webhook_step(r))

\* The service started over a working directory left by an earlier run:
\* workdir.mkdir(exist_ok=True) and repo_path.exists() take whatever clones
\* ~/workdir already holds.
InitRestarted ==
  /\ secret \in {"", "k1"}
  /\ CLAUDE_TIMEOUT \in {"", "30"}
  /\ cache \in [ShortNames -> {NoRepo} \cup Repos]
  /\ workdir = (\E n \in ShortNames : cache[n] # NoRepo)
  /\ tracker = [repo \in Repos |-> <<>>]
  /\ issue_labels = [repo \in Repos |-> {"claude-discuss"}]
  /\ loop = Free
  /\ delivered = 0
  /\ humans = 0
  /\ request = [r \in Reqs |-> NoRequest]
  /\ pc = [r \in Reqs |-> "idle"]
  /\ log = [r \in Reqs |-> <<>>]
  /\ issue_info = [r \in Reqs |-> <<>>]
  /\ claude_thoughts = [r \in Reqs |-> <<>>]
  /\ response = [r \in Reqs |-> NoResponse]
  /\ rival = [r \in Reqs |-> FALSE]

SpecRestarted == InitRestarted /\ [][Next]_vars

\* The service while people take the trigger label off issues instead of
\* commenting on them.
NextLabels ==
  \/ \E r \in Reqs : Deliver(r)
  \/ \E repo \in Repos : RemoveLabel(repo)
  \/ \E r \in Reqs : github_webhook(r)
  \/ \E r \in Reqs : verify_and_parse(r)
  \/ \E r \in Reqs : git_clone(r)
  \/ \E r \in Reqs : dispatch(r)
  \/ \E r \in Reqs : handle_issues_labeled(r)
  \/ \E r \in Reqs : handle_issue_comment_created(r)
  \/ \E r \in Reqs : analyze_issue_with_claude(r)
  \/ \E r \in Reqs : post_comment(r)

SpecLabels == Init /\ [][NextLabels]_vars

\* ================================================================= claims
\* What the claims speak of, said without the operators of the model.
Finished(r) == pc[r] = "done"
Running(r) == pc[r] \notin {"idle", "done"}
\* The request carries 'sha256=' + HMAC-SHA256(secret, body) of its own body.
Authentic(r) ==
  /\ secret # ""
  /\ request[r].signature = <<"sha256=", <<secret, request[r].body>>>>
WellFormed(r) == request[r].body.valid /\ request[r].event # ""
Verified(r) == Authentic(r) /\ WellFormed(r)
Pair(r) == <<request[r].event, request[r].body.action>>
Dir(r) == request[r].body.full_name[2]
Calls(r, call) == Cardinality({i \in DOMAIN log[r] : log[r][i][1] = call})
Failed(r, call) == \E i \in DOMAIN log[r] : log[r][i] = <<call, "error">>
CallNames(r) == [i \in DOMAIN log[r] |-> log[r][i][1]]
LastCall(r) == log[r][Len(log[r])]
HasMarkerSuffix(text) ==
  \E n \in 0..Len(text) : SubSeq(text, n + 1, Len(text)) = claude_reply_signature
Answered(comments) ==
  /\ Len(comments) > 0
  /\ HasMarkerSuffix(comments[Len(comments)].body)
FreshLabel(r) ==
  /\ Verified(r)
  /\ Pair(r) = <<"issues", "labeled">>
  /\ request[r].body.label = "claude-discuss"
Continuation(r) ==
  /\ Verified(r)
  /\ Pair(r) = <<"issue_comment", "created">>
  /\ "claude-discuss" \in request[r].body.labels

\* C1: no step of the handler of a request that fails authentication (no
\* secret configured, no signature header, or a header that is not 'sha256='
\* + HMAC-SHA256(secret, body)) makes an external call or changes the working
\* directory, the repository cache or an issue thread; the request goes from
\* its checks straight to its response.
C1_RejectedNoSideEffects ==
  [][\A r \in Reqs :
       (Running(r) /\ ~Authentic(r) /\ pc'[r] # pc[r]) =>
         /\ log'[r] = <<>>
         /\ cache' = cache /\ workdir' = workdir /\ tracker' = tracker
         /\ pc'[r] \in {"body", "done"}]_vars

\* C1 witness: a request whose signature header does not match has been answered.
C1_Witness ==
  \E r \in Reqs :
    /\ Finished(r) /\ secret # "" /\ request[r].signature # <<>>
    /\ ~Authentic(r) /\ log[r] = <<>>

\* C2: the response is 500 when the secret is not configured, 400 when the
\* signature header is missing, 401 when the signature does not match, and
\* 400 when the payload of an authentic request is malformed.
C2_StatusCodes ==
  \A r \in Reqs :
    Finished(r) =>
      response[r].status_code =
        IF secret = "" THEN 500
        ELSE IF request[r].signature = <<>> THEN 400
        ELSE IF ~Authentic(r) THEN 401
        ELSE IF ~WellFormed(r) THEN 400
        ELSE response[r].status_code

\* C3: a verified issues/labeled delivery with the label 'claude-discuss'
\* for a repository without a cache directory, whose clone, fetch and publish
\* succeed, makes exactly the calls clone, view, analyze, comment, once each
\* and in this order, and is answered 200 'Comment posted successfully'.  The
\* clone step is taken exactly when the directory is absent.
C3_FreshLabelPipeline ==
  \A r \in Reqs :
    /\ pc[r] = "clone" => cache[Dir(r)] = NoRepo /\ log[r] = <<>>
    /\ (Running(r) /\ pc[r] \notin {"start", "body", "clone"} /\ Calls(r, "clone") = 0)
         => cache[Dir(r)] # NoRepo
    /\ ( /\ Finished(r) /\ FreshLabel(r)
         /\ Calls(r, "clone") > 0
         /\ ~Failed(r, "clone") /\ ~Failed(r, "view") /\ ~Failed(r, "comment") )
         => /\ CallNames(r) = <<"clone", "view", "analyze", "comment">>
            /\ response[r] = [status_code |-> 200,
                              message |-> <<"Comment posted successfully">>]

\* C3 witness: such a delivery has gone through all four calls.
C3_Witness ==
  \E r \in Reqs :
    /\ Finished(r) /\ FreshLabel(r)
    /\ CallNames(r) = <<"clone", "view", "analyze", "comment">>
    /\ response[r].status_code = 200

\* C4: a verified issues/labeled delivery whose label is not 'claude-discuss'
\* is answered 200 'Label ignored: <label>' and makes no external call at
\* all, a clone included.
C4_OtherLabelNoCalls ==
  \A r \in Reqs :
    ( /\ Finished(r) /\ Verified(r)
      /\ Pair(r) = <<"issues", "labeled">>
      /\ request[r].body.label # "claude-discuss" )
      => /\ response[r] = [status_code |-> 200,
                           message |-> <<"Label ignored: ", request[r].body.label>>]
         /\ log[r] = <<>>

\* C5: a verified delivery whose (event, action) pair is neither
\* (issues, labeled) nor (issue_comment, created) is answered 200 and makes no
\* view, analyze or comment call, whatever the cache holds and whatever the
\* external calls return.
C5_OtherEventsIgnored ==
  \A r \in Reqs :
    ( /\ Finished(r) /\ Verified(r)
      /\ Pair(r) \notin {<<"issues", "labeled">>, <<"issue_comment", "created">>} )
      => /\ response[r].status_code = 200
         /\ Calls(r, "view") = 0 /\ Calls(r, "analyze") = 0 /\ Calls(r, "comment") = 0

\* C6: a verified issue_comment/created delivery for an issue carrying the
\* trigger label goes past its fetch only if the fetched issue's last comment
\* does not end with the marker; when it stops after a successful fetch it is
\* answered 200 'Claude reply already exists' with no analyze and no comment
\* call.
C6_DuplicateStops ==
  \A r \in Reqs :
    Continuation(r) =>
      /\ pc[r] \in {"analyze", "publish"} => ~Answered(issue_info[r])
      /\ (Finished(r) /\ log[r] # <<>> /\ LastCall(r) = <<"view", "ok">>)
           => /\ response[r] = [status_code |-> 200,
                                message |-> <<"Claude reply already exists">>]
              /\ Calls(r, "analyze") = 0 /\ Calls(r, "comment") = 0

\* C6 witness: a continuation delivery was answered as already handled.
C6_Witness ==
  \E r \in Reqs :
    /\ Finished(r) /\ Continuation(r)
    /\ LastCall(r) = <<"view", "ok">>
    /\ response[r].message = <<"Claude reply already exists">>

\* C7: in both handled cases (issues/labeled with the trigger label and
\* issue_comment/created on a labelled issue) a delivery for a repository
\* whose own clone is in the cache, and whose fetched issue ends with a reply
\* of the service carrying the marker, never reaches the analysis or the
\* publisher.
C7_GuardInEveryCase ==
  \A r \in Reqs :
    ( /\ FreshLabel(r) \/ Continuation(r)
      /\ pc[r] \in {"analyze", "publish"}
      /\ cache[Dir(r)] = request[r].body.full_name )
      => ~( /\ Answered(issue_info[r])
            /\ issue_info[r][Len(issue_info[r])].author = "bot" )

\* C8: the text handed to the publisher is never empty and always ends with
\* the marker, whatever the outcome of the analysis, and so does every
\* comment the service has posted.
C8_ReplyEndsWithMarker ==
  /\ \A r \in Reqs :
       pc[r] = "publish" =>
         claude_thoughts[r] # <<>> /\ HasMarkerSuffix(claude_thoughts[r])
  /\ \A repo \in Repos : \A i \in DOMAIN tracker[repo] :
       tracker[repo][i].author = "bot" =>
         tracker[repo][i].body # <<>> /\ HasMarkerSuffix(tracker[repo][i].body)

\* C8 witness: the backend timed out and the fallback text awaits publishing.
C8_Witness ==
  \E r \in Reqs :
    /\ pc[r] = "publish"
    /\ LastCall(r) = <<"analyze", "TimeoutExpired">>

\* C9: a request that has made its analyze call, whatever its outcome, goes
\* on to the publisher: until it is answered it stands before its one comment
\* call, and once answered it has made exactly one analyze and one comment
\* call, the comment last, with status 200 if the comment was posted and 500
\* if not.
C9_AnalysisNeverAborts ==
  \A r \in Reqs :
    Calls(r, "analyze") > 0 =>
      IF Finished(r)
        THEN /\ Calls(r, "analyze") = 1 /\ Calls(r, "comment") = 1
             /\ LastCall(r)[1] = "comment"
             /\ response[r].status_code = IF LastCall(r)[2] = "ok" THEN 200 ELSE 500
        ELSE pc[r] = "publish" /\ Calls(r, "comment") = 0

\* C9 witness: the backend failed and the request was still answered 200.
C9_Witness ==
  \E r \in Reqs :
    /\ Finished(r)
    /\ \E i \in DOMAIN log[r] : log[r][i] = <<"analyze", "CalledProcessError">>
    /\ response[r].status_code = 200

\* C10 as stated: two requests for the same repository that were waiting
\* together while it had no cache directory execute exactly one clone
\* between them.
C10_ExactlyOneClone ==
  \A r1, r2 \in Reqs :
    (r1 # r2 /\ Finished(r1) /\ Finished(r2) /\ rival[r1] /\ rival[r2])
      => Calls(r1, "clone") + Calls(r2, "clone") = 1

\* C10 amended: at no time are two requests between their exists-check and
\* the end of their clone, and two such requests execute one clone between
\* them, or two when the first of the two clones failed.
C10_OneCloneUnlessFailed ==
  /\ \A r1, r2 \in Reqs : r1 # r2 => ~(pc[r1] = "clone" /\ pc[r2] = "clone")
  /\ \A r1, r2 \in Reqs :
       (r1 # r2 /\ Finished(r1) /\ Finished(r2) /\ rival[r1] /\ rival[r2])
         => \/ Calls(r1, "clone") + Calls(r2, "clone") = 1
            \/ /\ Calls(r1, "clone") + Calls(r2, "clone") = 2
               /\ Failed(r1, "clone") \/ Failed(r2, "clone")

\* C10 witness: two such requests are answered and one of them has cloned.
C10_Witness ==
  \E r1, r2 \in Reqs :
    /\ r1 # r2 /\ Finished(r1) /\ Finished(r2) /\ rival[r1] /\ rival[r2]
    /\ log[r1][1] = <<"clone", "ok">> /\ Calls(r2, "clone") = 0
    /\ response[r1].status_code = 200 /\ response[r2].status_code = 200

\* C11: a failed clone, fetch or publish ends the request at once: the
\* failed call is the last call of the request, it was made once (no retry),
\* the request is answered with an error status, and so a failed clone is
\* followed by no fetch, analysis or publish and a failed fetch by no
\* analysis or publish.
C11_FailureEndsRequest ==
  \A r \in Reqs : \A call \in {"clone", "view", "comment"} :
    Failed(r, call) =>
      /\ Finished(r)
      /\ response[r].status_code = 500
      /\ LastCall(r) = <<call, "error">>
      /\ Calls(r, call) = 1

\* C11 witness: a request was answered after its fetch failed, the clone
\* before it having succeeded.
C11_Witness ==
  \E r \in Reqs :
    /\ Finished(r)
    /\ log[r] = << <<"clone", "ok">>, <<"view", "error">> >>
    /\ response[r].status_code = 500

\* C12: while the analysis timeout is not configured the service posts no
\* comment, neither an analysis nor a fallback apology: no request has made
\* a comment call and no issue thread holds a comment of the service.
C12_NoCommentWithoutTimeout ==
  CLAUDE_TIMEOUT = "" =>
    /\ \A r \in Reqs : Calls(r, "comment") = 0
    /\ \A repo \in Repos : \A i \in DOMAIN tracker[repo] :
         tracker[repo][i].author # "bot"

\* C13: every successful fetch hands the handler the issue of the repository
\* the event names by its full name, and every successful publish adds the
\* reply to the issue of that same repository and to no other, whatever
\* requests came before.
C13_AddressesEventRepository ==
  [][\A r \in Reqs :
       /\ (log'[r] = Append(log[r], <<"view", "ok">>) /\ pc'[r] = "analyze")
            => issue_info'[r] = tracker[request[r].body.full_name]
       /\ log'[r] = Append(log[r], <<"comment", "ok">>)
            => /\ tracker'[request[r].body.full_name] # <<>>
               /\ LET thread == tracker'[request[r].body.full_name] IN
                    thread[Len(thread)] = [author |-> "bot", body |-> claude_thoughts[r]]
               /\ \A repo \in Repos \ {request[r].body.full_name} :
                    tracker'[repo] = tracker[repo]]_vars

\* Place of a call in the order of the pipeline.
StepRank(call) ==
  CASE call = "clone" -> 1 [] call = "view" -> 2
    [] call = "analyze" -> 3 [] call = "comment" -> 4

\* C14: the external steps of a request happen in the order clone, fetch
\* (with the duplicate check), analysis, publish, each at most once; a step is
\* taken only when the one before it has completed with success; and the
\* request has a response exactly when its handler has ended, after its last
\* step.
C14_StepsInOrder ==
  \A r \in Reqs :
    /\ \A i, j \in DOMAIN log[r] :
         i < j => /\ StepRank(log[r][i][1]) < StepRank(log[r][j][1])
                  /\ log[r][i][2] # "error"
    /\ pc[r] \in {"labeled_view", "comment_view"} => Calls(r, "view") = 0
    /\ pc[r] = "analyze" => log[r] # <<>> /\ LastCall(r) = <<"view", "ok">>
    /\ pc[r] = "publish" => log[r] # <<>> /\ LastCall(r)[1] = "analyze"
    /\ response[r].status_code # 0 <=> Finished(r)

\* C14 witness: a comment delivery for a repository already in the cache
\* went through fetch, analysis and publish and was answered.
C14_Witness ==
  \E r \in Reqs :
    /\ Finished(r) /\ Continuation(r)
    /\ CallNames(r) = <<"view", "analyze", "comment">>
    /\ response[r].status_code = 200

\* C15: of two deliveries for the same issue that were waiting together, at
\* most one publishes a reply when nobody else commented on the issue: the
\* thread does not gain two replies of the service in a row.
C15_OneReplyPerRace ==
  \A r1, r2 \in Reqs :
    ( /\ r1 # r2 /\ Finished(r1) /\ Finished(r2)
      /\ rival[r1] /\ rival[r2]
      /\ request[r1].body.full_name = request[r2].body.full_name
      /\ request[r1].body.number = request[r2].body.number
      /\ humans = 0 )
      => ~( /\ \E i \in DOMAIN log[r1] : log[r1][i] = <<"comment", "ok">>
            /\ \E i \in DOMAIN log[r2] : log[r2][i] = <<"comment", "ok">> )

\* C16: an issue_comment/created delivery for an issue whose last comment is
\* a reply of the service causes no further reply: while that reply is the
\* last comment of the issue, the delivery is never in its analysis or before
\* its publish.
C16_NoReplyToOwnReply ==
  \A r \in Reqs :
    ( /\ Verified(r)
      /\ Pair(r) = <<"issue_comment", "created">>
      /\ pc[r] \in {"analyze", "publish"} )
      => LET thread == tracker[request[r].body.full_name] IN
           ~(thread # <<>> /\ thread[Len(thread)].author = "bot")

C18_NoHeadOfLineBlocking ==
  \A r1, r2 \in Reqs :
    ( /\ r1 # r2
      /\ pc[r1] \in {"clone", "labeled_view", "comment_view", "analyze", "publish"}
      /\ pc[r2] \in {"start", "body"}
      /\ \/ ~Verified(r2)
         \/ Pair(r2) \notin {<<"issues", "labeled">>, <<"issue_comment", "created">>}
         \/ request[r2].body.full_name # request[r1].body.full_name )
      => ENABLED (github_webhook(r2) \/ verify_and_parse(r2))

\* C19: the working directory, once made, stays, and a cache directory that
\* exists is never deleted, replaced or cloned again: no step changes the
\* entry of a short name that has one, and no request for that short name
\* makes a clone call, so each short name sees at most one successful clone.
C19_CacheAppendOnly ==
  [][/\ workdir => workdir'
     /\ \A n \in ShortNames :
          cache[n] # NoRepo =>
            /\ cache'[n] = cache[n]
            /\ \A r \in Reqs :
                 (Verified(r) /\ Dir(r) = n) =>
                   ~( /\ Len(log'[r]) > Len(log[r])
                      /\ log'[r][Len(log'[r])][1] = "clone" )]_vars

\* C19 witness: a verified request was answered without a clone call, its
\* directory having been cloned by the other connection's request.
C19_Witness ==
  \E r1, r2 \in Reqs :
    /\ r1 # r2 /\ Finished(r1) /\ Finished(r2)
    /\ Verified(r1) /\ Verified(r2) /\ Dir(r1) = Dir(r2)
    /\ log[r1] # <<>> /\ log[r1][1] = <<"clone", "ok">>
    /\ log[r2] # <<>> /\ Calls(r2, "clone") = 0
    /\ cache[Dir(r2)] = request[r1].body.full_name

\* C20: every request that has arrived is eventually answered, with status
\* 200 or an error status, whatever its external calls return or raise; a
\* request has no response before its handler has ended, and the response it
\* has then is not replaced.
C20_EveryRequestAnswered ==
  /\ \A r \in Reqs :
       Running(r) ~> (Finished(r) /\ response[r].status_code \in {200, 500})
  /\ [](\A r \in Reqs : Running(r) => response[r] = NoResponse)
  /\ [][\A r \in Reqs :
         (Finished(r) /\ pc'[r] = "done") => response'[r] = response[r]]_vars

\* C20 witness: an authentic request whose body is not JSON, a failure no
\* step catches on its own, was answered with an error status.
C20_Witness ==
  \E r \in Reqs :
    /\ Finished(r) /\ Authentic(r) /\ ~request[r].body.valid
    /\ response[r].status_code = 500
====
